---- MODULE Spec2Model ----
(***************************************************************************)
(* Valut: the scheduling / retry loop (main_loop), one reconciliation pass *)
(* (execute, iterate) and the reconciler (update_stored_exchange_rates,    *)
(* set_exchange_rate) of src/src/main.rs.                                  *)
(*                                                                         *)
(* Time is in whole seconds since the epoch, a calendar date is a day      *)
(* number (seconds \div 86400).  A Decimal is a fixed-point integer that   *)
(* counts units of 10^-DecScale (rust_decimal keeps 28 places; the model   *)
(* keeps DecScale places and rounds a quotient the same way).              *)
(***************************************************************************)
EXTENDS Integers, Sequences, FiniteSets, TLC

VARIABLES
    clock,            \* wall clock read by Utc::now()
    retry_count,      \* main_loop: retry_count
    delay_sec,        \* main_loop: delay_sec
    last_execution,   \* main_loop: last_execution
    last_try,         \* main_loop: last_try
    pc,               \* position of the main task
    start_date,       \* iterate: start_date
    current_date,     \* iterate: current_date
    exchange_rates,   \* iterate: exchange_rates (the map fetched for current_date)
    currency,         \* update_stored_exchange_rates: index into currencies
    result,           \* value returned by update_stored_exchange_rates
    store,            \* table exchange_rates: a set of rows
    db_now,           \* the store's clock, NOW()
    pass_dates,       \* history: dates reconciled by the running pass, in order
    store0,           \* history: the store when the running reconciliation began
    prev_call,        \* history: the previous reconciliation <<date, map, result>>
    calls,            \* history: number of reconciliations begun
    val_curs,         \* get_exchange_rates_for_date: val_curs (the document last fetched)
    pass_maps,        \* history: the maps fetched by the running pass, in order
    writes,           \* history: the set_exchange_rate calls completed by the running pass
    pass_store0       \* history: the store when the running pass began

vars == <<clock, retry_count, delay_sec, last_execution, last_try, pc,
          start_date, current_date, exchange_rates, currency, result,
          store, db_now, pass_dates, store0, prev_call, calls,
          val_curs, pass_maps, writes, pass_store0>>

sched_vars == <<retry_count, delay_sec, last_execution, last_try>>
pass_vars == <<start_date, current_date, exchange_rates, currency, result>>
hist_vars == <<pass_dates, store0, prev_call, calls>>
log_vars == <<val_curs, pass_maps, writes, pass_store0>>

----------------------------------------------------------------------------
(* Program constants *)

DELAY_SEC == 1200
RETRYDELAY_SEC == 5
MAX_RETRY_COUNT == 10
DAYS_BACK == 6
DAYS_AHEAD == 1

\* DateTime::<Utc>::MIN_UTC: midnight of a day far before every clock reading
\* (chrono's value is year -262143; the model keeps it inside TLC's integers).
MIN_UTC == -86400000

(* Bounds of the model *)

DecScale == 3        \* decimal places kept by a Decimal
MaxFine == 5         \* clock readings T0, T0+1, ..., T0+MaxFine
MaxCoarse == 9       \* clock readings T0+600, ..., T0+600*MaxCoarse
MaxPassSecs == 2     \* longest time a pass takes
MaxCalls == 3        \* reconciliations begun by ReconSpec
MaxTicks == 1        \* clock readings T0, T0+600, ..., T0+600*MaxTicks of PassSpec
MaxValutes == 2      \* longest document parsed by ParseSpec

----------------------------------------------------------------------------
(* chrono *)

date_naive(t) == t \div 86400
hour(t) == (t % 86400) \div 3600

\* The clock readings of the model: a fine grid of seconds from T0 (day 100,
\* 23:50:00) and a coarse grid of ten-minute steps that crosses midnight and
\* the following hour.
T0 == 100 * 86400 + 85800
Times == {T0 + k : k \in 0..MaxFine} \cup {T0 + 600 * k : k \in 1..MaxCoarse}

----------------------------------------------------------------------------
(* rust_decimal *)

RECURSIVE Pow10(_)
Pow10(n) == IF n = 0 THEN 1 ELSE 10 * Pow10(n - 1)

\* The Decimal m * 10^-e.
Dec(m, e) == m * Pow10(DecScale - e)
ONE == Dec(1, 0)
is_zero(d) == d = 0

\* a / b for b # 0, rounded to DecScale places, ties to even.
DecDiv(a, b) ==
    LET n == a * Pow10(DecScale)
        q == n \div b
        r == n % b
    IN  IF 2 * r > b \/ (2 * r = b /\ q % 2 = 1) THEN q + 1 ELSE q

----------------------------------------------------------------------------
(* next_delay: (phi * value).round() with phi = (1 + sqrt 5) / 2 *)

\* floor(v * sqrt 5)
Sqrt5Times(v) == CHOOSE s \in 0..(3 * v) : s * s <= 5 * v * v /\ (s + 1) * (s + 1) > 5 * v * v

\* Variant: the product truncated instead of rounded.
next_delay_truncated(value) == (value + Sqrt5Times(value)) \div 2

\* round(phi * v) = floor(phi * v + 1/2) = floor((v + 1 + floor(v * sqrt 5)) / 2)
next_delay(value) == (value + 1 + Sqrt5Times(value)) \div 2

----------------------------------------------------------------------------
(* The feed and the store *)

RUB == "RUB"
get_currencies == <<"USD", "EUR">>

NoDate == date_naive(MIN_UTC)
NoMap == [c \in {} |-> 0]

\* Rate maps get_curs_map can return.  GoodMap is the scenario of the
\* specification (USD 90,5 and EUR 100,25) with an untracked currency as well.
GoodMap == ("USD" :> Dec(905, 1)) @@ ("EUR" :> Dec(10025, 2)) @@ ("GBP" :> Dec(120, 0))
ChangedMap == ("USD" :> Dec(50, 0)) @@ ("EUR" :> Dec(10025, 2)) @@ ("GBP" :> Dec(120, 0))
NoUsdMap == ("EUR" :> Dec(10025, 2)) @@ ("GBP" :> Dec(120, 0))
NoEurMap == ("USD" :> Dec(905, 1)) @@ ("GBP" :> Dec(120, 0))
\* USD 91: another rate whose reciprocal rounds to that of 90,5.
NearMap == ("USD" :> Dec(91, 0)) @@ ("EUR" :> Dec(10025, 2)) @@ ("GBP" :> Dec(120, 0))
ZeroEurMap == ("USD" :> Dec(905, 1)) @@ ("EUR" :> Dec(0, 0))

----------------------------------------------------------------------------
(* The feed's parser: get_curs_map, normalize_decimal_string and            *)
(* parse_decimal_string.  A string is a sequence of one-character strings,  *)
(* an Option is <<>> (None) or <<v>> (Some(v)).                            *)

None == <<>>
Some(v) == <<v>>

Digit == ("0" :> 0) @@ ("1" :> 1) @@ ("2" :> 2) @@ ("3" :> 3) @@ ("4" :> 4) @@
         ("5" :> 5) @@ ("6" :> 6) @@ ("7" :> 7) @@ ("8" :> 8) @@ ("9" :> 9)
IsDigit(c) == c \in DOMAIN Digit

\* The number written by a sequence of digits.
RECURSIVE Number(_)
Number(ds) ==
    IF ds = <<>> THEN 0
    ELSE 10 * Number(SubSeq(ds, 1, Len(ds) - 1)) + Digit[ds[Len(ds)]]

\* s.replace(',', ".") (line 180)
normalize_decimal_string(s) == [i \in 1..Len(s) |-> IF s[i] = "," THEN "." ELSE s[i]]

\* Decimal::from_str(s).ok(): an optional sign, then digits with at most one
\* point and at least one digit; anything else is an error.  The strings of
\* the model have at most two decimal places, which the model's Decimal holds.
from_str(s) ==
    LET signed == s # <<>> /\ Head(s) \in {"+", "-"}
        body == IF signed THEN Tail(s) ELSE s
        points == {i \in 1..Len(body) : body[i] = "."}
        digits == SelectSeq(body, IsDigit)
        scale == IF points = {} THEN 0 ELSE Len(body) - (CHOOSE i \in points : TRUE)
        magnitude == Dec(Number(digits), scale)
    IN  IF /\ \A i \in 1..Len(body) : IsDigit(body[i]) \/ body[i] = "."
           /\ Cardinality(points) <= 1
           /\ digits # <<>>
        THEN Some(IF signed /\ Head(s) = "-" THEN 0 - magnitude ELSE magnitude)
        ELSE None

\* exp_str.parse::<i32>().ok(): an optional sign and at least one digit.
parse_i32(s) ==
    LET signed == s # <<>> /\ Head(s) \in {"+", "-"}
        body == IF signed THEN Tail(s) ELSE s
    IN  IF body # <<>> /\ \A i \in 1..Len(body) : IsDigit(body[i])
        THEN Some(IF signed /\ Head(s) = "-" THEN 0 - Number(body) ELSE Number(body))
        ELSE None

\* parse_decimal_string (lines 336-364).  The exponents of the model's strings
\* have one digit, so the checked products stay below Decimal::MAX and
\* checked_mul returns a value.
parse_decimal_string(s) ==
    LET found == {i \in 1..Len(s) : s[i] \in {"e", "E"}}
    IN  IF found # {}
        THEN LET e_pos == CHOOSE i \in found : \A j \in found : i <= j
                 mantissa_str == SubSeq(s, 1, e_pos - 1)
                 exp_str == SubSeq(s, e_pos + 1, Len(s))
                 mantissa == from_str(mantissa_str)
                 exponent == parse_i32(exp_str)
             IN  IF mantissa = None \/ exponent = None
                 THEN None
                 ELSE LET power == Pow10(IF exponent[1] >= 0 THEN exponent[1]
                                         ELSE 0 - exponent[1])
                      IN  IF exponent[1] >= 0
                          THEN Some(mantissa[1] * power)
                          ELSE Some(DecDiv(mantissa[1], Dec(power, 0)))
        ELSE from_str(s)

\* Variant: the first entry of a currency code is kept.
RECURSIVE get_curs_map_first(_)
get_curs_map_first(valutes) ==
    IF valutes = <<>> THEN NoMap
    ELSE LET map == get_curs_map_first(SubSeq(valutes, 1, Len(valutes) - 1))
             valute == valutes[Len(valutes)]
             value == parse_decimal_string(normalize_decimal_string(valute.vunit_rate))
         IN  IF value # None /\ valute.char_code \notin DOMAIN map
             THEN [c \in DOMAIN map \cup {valute.char_code} |->
                      IF c = valute.char_code THEN value[1] ELSE map[c]]
             ELSE map

\* get_curs_map (lines 165-177): the entries of val_curs.valute in document
\* order, each inserted when its rate parses.
RECURSIVE get_curs_map(_)
get_curs_map(valutes) ==
    IF valutes = <<>> THEN NoMap
    ELSE LET map == get_curs_map(SubSeq(valutes, 1, Len(valutes) - 1))
             valute == valutes[Len(valutes)]
             value == parse_decimal_string(normalize_decimal_string(valute.vunit_rate))
         IN  IF value # None
             THEN [c \in DOMAIN map \cup {valute.char_code} |->
                      IF c = valute.char_code THEN value[1] ELSE map[c]]
             ELSE map

\* Documents of the feed: val_curs.valute, the list of <Valute> elements.
Valute(code, rate) == [char_code |-> code, vunit_rate |-> rate]

GoodDoc == <<Valute("USD", <<"9", "0", ",", "5">>),
             Valute("EUR", <<"1", "0", "0", ",", "2", "5">>),
             Valute("GBP", <<"1", "2", "0">>)>>
ChangedDoc == <<Valute("USD", <<"5", "0">>),
                Valute("EUR", <<"1", "0", "0", ",", "2", "5">>),
                Valute("GBP", <<"1", "2", "0">>)>>
ZeroEurDoc == <<Valute("USD", <<"9", "0", ",", "5">>),
                Valute("EUR", <<"0">>)>>
\* A tracked currency whose only rate string does not parse.
BadUsdDoc == <<Valute("USD", <<>>),
               Valute("EUR", <<"1", "0", "0", ",", "2", "5">>),
               Valute("GBP", <<"1", "2", "0">>)>>
BadEurDoc == <<Valute("USD", <<"9", "0", ",", "5">>),
               Valute("EUR", <<"n", "/", "a">>),
               Valute("GBP", <<"1", "2", "0">>)>>
\* An untracked currency whose rate string does not parse.
BadGbpDoc == <<Valute("USD", <<"9", "0", ",", "5">>),
               Valute("EUR", <<"1", "0", "0", ",", "2", "5">>),
               Valute("GBP", <<"1", "2", "0", ",", ",", "5">>)>>

Key(r) == <<r.from_currency, r.to_currency, r.date>>

\* Variant: the two currency parameters are bound the other way round.
Select_Swapped(s, from_currency, to_currency, date) ==
    {r \in s : Key(r) = <<to_currency, from_currency, date>>}

\* SELECT id, rate FROM exchange_rates WHERE from_currency = $1 AND to_currency = $2 AND date = $3
Select(s, from_currency, to_currency, date) ==
    {r \in s : Key(r) = <<from_currency, to_currency, date>>}

\* Variant: a row that is found is updated whether or not its rate differs.
set_exchange_rate_always(s, date, from_currency, to_currency, rate, now) ==
    LET found == Select(s, from_currency, to_currency, date)
    IN  IF found # {}
        THEN LET exchange_rate == CHOOSE r \in found : TRUE
             IN  {IF r.id = exchange_rate.id
                  THEN [r EXCEPT !.rate = rate, !.updated_at = now]
                  ELSE r : r \in s}
        ELSE s \cup {[id |-> Cardinality(s) + 1,
                      from_currency |-> from_currency, to_currency |-> to_currency,
                      rate |-> rate, date |-> date,
                      created_at |-> now, updated_at |-> now]}

\* Variant: the UPDATE selects by date instead of by id.
set_exchange_rate_by_date(s, date, from_currency, to_currency, rate, now) ==
    LET found == Select(s, from_currency, to_currency, date)
    IN  IF found # {}
        THEN LET exchange_rate == CHOOSE r \in found : TRUE
             IN  IF exchange_rate.rate # rate
                 THEN {IF r.date = exchange_rate.date
                       THEN [r EXCEPT !.rate = rate, !.updated_at = now]
                       ELSE r : r \in s}
                 ELSE s
        ELSE s \cup {[id |-> Cardinality(s) + 1,
                      from_currency |-> from_currency, to_currency |-> to_currency,
                      rate |-> rate, date |-> date,
                      created_at |-> now, updated_at |-> now]}

\* Variant: a row that is found is left as it is.
set_exchange_rate_insert_only(s, date, from_currency, to_currency, rate, now) ==
    IF Select(s, from_currency, to_currency, date) # {}
    THEN s
    ELSE s \cup {[id |-> Cardinality(s) + 1,
                  from_currency |-> from_currency, to_currency |-> to_currency,
                  rate |-> rate, date |-> date,
                  created_at |-> now, updated_at |-> now]}

\* The table after set_exchange_rate succeeds, now being the store's NOW().
set_exchange_rate(s, date, from_currency, to_currency, rate, now) ==
    LET found == Select(s, from_currency, to_currency, date)
    IN  IF found # {}
        THEN LET exchange_rate == CHOOSE r \in found : TRUE
             IN  IF exchange_rate.rate # rate
                 THEN {IF r.id = exchange_rate.id
                       THEN [r EXCEPT !.rate = rate, !.updated_at = now]
                       ELSE r : r \in s}
                 ELSE s
        ELSE s \cup {[id |-> Cardinality(s) + 1,
                      from_currency |-> from_currency, to_currency |-> to_currency,
                      rate |-> rate, date |-> date,
                      created_at |-> now, updated_at |-> now]}

----------------------------------------------------------------------------
(* main_loop *)

\* Variant: the backoff delay is not waited for.
ShouldExecute_NoBackoff ==
    \/ clock >= last_execution + DELAY_SEC
    \/ date_naive(last_execution) # date_naive(clock)
    \/ hour(last_execution) # hour(clock)

\* The condition of main_loop's if (lines 53-60), with now = clock.
ShouldExecute ==
    LET next_execution == last_execution + DELAY_SEC
        next_try == last_try + delay_sec
        now == clock
    IN  (\/ now >= next_execution
         \/ date_naive(last_execution) # date_naive(now)
         \/ hour(last_execution) # hour(now))
        /\ now >= next_try

\* delay_sec after a failed pass (lines 75-78).
RetryDelay(d) == IF d = 0 THEN RETRYDELAY_SEC ELSE next_delay(d)

\* The test that ends the loop (line 84).
MaxRetriesExceeded(rc) == rc > MAX_RETRY_COUNT

\* Lines 84-89, reached with retry_count = rc: break out of the loop (main's
\* select completes and the process ends) or go to sleep.
AfterMatch(rc) == pc' = IF MaxRetriesExceeded(rc) THEN "ended" ELSE "sleep"

\* Variant: a success leaves the backoff delay as it was.
MatchOk_KeepDelay ==
    /\ retry_count' = 0
    /\ delay_sec' = delay_sec
    /\ last_execution' = clock
    /\ last_try' = MIN_UTC
    /\ AfterMatch(0)

\* The Ok arm of the match on execute() (lines 65-70).
MatchOk ==
    /\ retry_count' = 0
    /\ delay_sec' = 0
    /\ last_execution' = clock
    /\ last_try' = MIN_UTC
    /\ AfterMatch(0)

\* Variant: a failed pass is recorded as an execution.
MatchErr_MarksRun ==
    /\ retry_count' = retry_count + 1
    /\ delay_sec' = RetryDelay(delay_sec)
    /\ last_execution' = clock
    /\ UNCHANGED last_try
    /\ AfterMatch(retry_count + 1)

\* The Err arm of the match on execute() (lines 72-80).
MatchErr ==
    /\ retry_count' = retry_count + 1
    /\ delay_sec' = RetryDelay(delay_sec)
    /\ UNCHANGED <<last_execution, last_try>>
    /\ AfterMatch(retry_count + 1)

\* execute: the window of dates of a pass that starts today (lines 124-130).
WindowStart(today) == today - DAYS_BACK
\* Variant: the window ends today.
WindowEnd_Today(today) == today

WindowEnd(today) == today + DAYS_AHEAD

\* One evaluation of the loop body up to its first await: either the pass
\* starts and runs to get_db_pool().await, or the body falls through to the
\* retry test and the sleep.
LoopIteration ==
    /\ pc = "loop"
    /\ IF ShouldExecute
       THEN /\ last_try' = clock
            /\ start_date' = WindowStart(date_naive(clock))
            /\ current_date' = WindowEnd(date_naive(clock))
            /\ pass_dates' = <<>>
            /\ pass_maps' = <<>>
            /\ writes' = <<>>
            /\ pass_store0' = store
            /\ pc' = "get_db_pool"
            /\ UNCHANGED <<retry_count, delay_sec, last_execution>>
       ELSE /\ AfterMatch(retry_count)
            /\ UNCHANGED <<sched_vars, start_date, current_date, pass_dates,
                           pass_maps, writes, pass_store0>>
    /\ UNCHANGED <<clock, exchange_rates, currency, result, store, db_now,
                   store0, prev_call, calls, val_curs>>

\* tokio::time::sleep(1 s): the next clock reading is at least a second later.
Sleep(Readings) ==
    /\ pc = "sleep"
    /\ \E t \in Readings : t >= clock + 1 /\ clock' = t
    /\ pc' = "loop"
    /\ UNCHANGED <<sched_vars, pass_vars, store, db_now, hist_vars, log_vars>>

----------------------------------------------------------------------------
(* execute / iterate *)

\* Variant: a failed connection is not counted as a failed pass.
GetDbPool_Uncounted(Readings) ==
    /\ pc = "get_db_pool"
    /\ \E t \in Readings : t >= clock /\ t <= clock + MaxPassSecs /\ clock' = t
    /\ \/ pc' = "get_exchange_rates_for_date"
       \/ pc' = "sleep"
    /\ UNCHANGED <<sched_vars, pass_vars, store, db_now, hist_vars, log_vars>>

\* get_db_pool().await (line 143): the connection is made or fails; the time
\* a pass takes is spent here.
GetDbPool(Readings) ==
    /\ pc = "get_db_pool"
    /\ \E t \in Readings : t >= clock /\ t <= clock + MaxPassSecs /\ clock' = t
    /\ \/ /\ pc' = "get_exchange_rates_for_date"
          /\ UNCHANGED sched_vars
       \/ MatchErr
    /\ UNCHANGED <<pass_vars, store, db_now, hist_vars, log_vars>>

\* The entry of update_stored_exchange_rates(date, exchange_rates, ..).
BeginUpdate(date, rates) ==
    /\ current_date' = date
    /\ exchange_rates' = rates
    /\ currency' = 1
    /\ store0' = store
    /\ pc' = "currency"

\* What get_exchange_rates_for_date does (lines 159-163): get_val_curs fails
\* (transport, status, malformed document), or it returns the document and
\* get_curs_map parses it.
FetchErr == [ok |-> FALSE, val_curs |-> <<>>, map |-> NoMap]
FetchOk(document) == [ok |-> TRUE, val_curs |-> document, map |-> get_curs_map(document)]

\* get_exchange_rates_for_date(current_date).await (line 147).
GetExchangeRates(Fetched) ==
    /\ pc = "get_exchange_rates_for_date"
    /\ \E f \in Fetched :
          IF f.ok
          THEN /\ BeginUpdate(current_date, f.map)
               /\ val_curs' = f.val_curs
               /\ pass_maps' = Append(pass_maps, f.map)
               /\ UNCHANGED sched_vars
          ELSE /\ MatchErr
               /\ UNCHANGED <<current_date, exchange_rates, currency, store0,
                              val_curs, pass_maps>>
    /\ UNCHANGED <<clock, start_date, result, store, db_now, pass_dates,
                   prev_call, calls, writes, pass_store0>>

\* Lines 149-156 once update_stored_exchange_rates has returned: the error is
\* propagated to main_loop, or the pass moves to the previous date, or the
\* pass is complete.
IterateNext ==
    /\ pc = "update_done"
    /\ IF result = "Err"
       THEN /\ MatchErr
            /\ UNCHANGED <<current_date, pass_dates>>
       ELSE /\ pass_dates' = Append(pass_dates, current_date)
            /\ current_date' = current_date - 1
            /\ IF current_date - 1 >= start_date
               THEN /\ pc' = "get_exchange_rates_for_date"
                    /\ UNCHANGED sched_vars
               ELSE MatchOk
    /\ UNCHANGED <<clock, start_date, exchange_rates, currency, result,
                   store, db_now, store0, prev_call, calls, log_vars>>

----------------------------------------------------------------------------
(* update_stored_exchange_rates *)

\* Variant: the rate itself is written to the reverse row.
reverse_rate_same(rate) == rate

\* let reverse_rate = Decimal::ONE / rate (line 226), for rate # 0.
reverse_rate(rate) == DecDiv(ONE, rate)

\* Variant: a currency without a rate is skipped.
NextCurrency_SkipMissing ==
    /\ pc = "currency"
    /\ IF currency > Len(get_currencies)
       THEN result' = "Ok" /\ pc' = "update_done" /\ currency' = currency
       ELSE IF get_currencies[currency] \notin DOMAIN exchange_rates
       THEN result' = result /\ pc' = "currency" /\ currency' = currency + 1
       ELSE IF is_zero(exchange_rates[get_currencies[currency]])
       THEN result' = result /\ pc' = "panicked" /\ currency' = currency
       ELSE result' = result /\ pc' = "set_rate" /\ currency' = currency
    /\ UNCHANGED <<clock, sched_vars, start_date, current_date, exchange_rates,
                   store, db_now, hist_vars, log_vars>>

\* The head of the for loop (lines 217-227): the list is exhausted and the
\* function returns Ok, or the rate is missing and it returns the error, or
\* the rate is zero and Decimal::ONE / rate panics, or the first
\* set_exchange_rate is awaited.
NextCurrency ==
    /\ pc = "currency"
    /\ IF currency > Len(get_currencies)
       THEN result' = "Ok" /\ pc' = "update_done"
       ELSE IF get_currencies[currency] \notin DOMAIN exchange_rates
       THEN result' = "Err" /\ pc' = "update_done"
       ELSE IF is_zero(exchange_rates[get_currencies[currency]])
       THEN result' = result /\ pc' = "panicked"
       ELSE result' = result /\ pc' = "set_rate"
    /\ UNCHANGED <<clock, sched_vars, start_date, current_date, exchange_rates,
                   currency, store, db_now, hist_vars, log_vars>>

\* A statement that changed the table advances the store's clock.
Written(s) ==
    /\ store' = s
    /\ db_now' = IF s # store THEN db_now + 1 ELSE db_now

\* A completed call set_exchange_rate(date, from_currency, to_currency, rate).
Call(date, from_currency, to_currency, rate) ==
    [date |-> date, from_currency |-> from_currency,
     to_currency |-> to_currency, rate |-> rate]

\* Variant: the fetched rate is written to the RUB -> currency row.
SetRate_Swapped(Outcomes) ==
    /\ pc = "set_rate"
    /\ LET c == get_currencies[currency]
       IN  \/ /\ "ok" \in Outcomes
              /\ Written(set_exchange_rate(store, current_date, RUB, c,
                                             exchange_rates[c], db_now + 1))
              /\ writes' = Append(writes, Call(current_date, RUB, c, exchange_rates[c]))
              /\ pc' = "set_reverse"
              /\ UNCHANGED result
           \/ /\ "err" \in Outcomes
              /\ result' = "Err"
              /\ pc' = "update_done"
              /\ UNCHANGED <<store, db_now, writes>>
    /\ UNCHANGED <<clock, sched_vars, start_date, current_date, exchange_rates,
                   currency, hist_vars, val_curs, pass_maps, pass_store0>>

\* set_exchange_rate(date, currency, "RUB", rate, pool).await (line 229): the
\* statements succeed ("ok") or the store reports an error ("err").
SetRate(Outcomes) ==
    /\ pc = "set_rate"
    /\ LET c == get_currencies[currency]
       IN  \/ /\ "ok" \in Outcomes
              /\ Written(set_exchange_rate(store, current_date, c, RUB,
                                             exchange_rates[c], db_now + 1))
              /\ writes' = Append(writes, Call(current_date, c, RUB, exchange_rates[c]))
              /\ pc' = "set_reverse"
              /\ UNCHANGED result
           \/ /\ "err" \in Outcomes
              /\ result' = "Err"
              /\ pc' = "update_done"
              /\ UNCHANGED <<store, db_now, writes>>
    /\ UNCHANGED <<clock, sched_vars, start_date, current_date, exchange_rates,
                   currency, hist_vars, val_curs, pass_maps, pass_store0>>

\* Variant: a store error undoes the writes made for the date.
SetReverse_Rollback(Outcomes) ==
    /\ pc = "set_reverse"
    /\ LET c == get_currencies[currency]
       IN  \/ /\ "ok" \in Outcomes
              /\ Written(set_exchange_rate(store, current_date, RUB, c,
                                             reverse_rate(exchange_rates[c]), db_now + 1))
              /\ writes' = Append(writes, Call(current_date, RUB, c,
                                               reverse_rate(exchange_rates[c])))
              /\ currency' = currency + 1
              /\ pc' = "currency"
              /\ UNCHANGED result
           \/ /\ "err" \in Outcomes
              /\ result' = "Err"
              /\ pc' = "update_done"
              /\ store' = store0
              /\ UNCHANGED <<db_now, currency, writes>>
    /\ UNCHANGED <<clock, sched_vars, start_date, current_date, exchange_rates,
                   hist_vars, val_curs, pass_maps, pass_store0>>

\* set_exchange_rate(date, "RUB", currency, reverse_rate, pool).await (line 230).
SetReverse(Outcomes) ==
    /\ pc = "set_reverse"
    /\ LET c == get_currencies[currency]
       IN  \/ /\ "ok" \in Outcomes
              /\ Written(set_exchange_rate(store, current_date, RUB, c,
                                             reverse_rate(exchange_rates[c]), db_now + 1))
              /\ writes' = Append(writes, Call(current_date, RUB, c,
                                               reverse_rate(exchange_rates[c])))
              /\ currency' = currency + 1
              /\ pc' = "currency"
              /\ UNCHANGED result
           \/ /\ "err" \in Outcomes
              /\ result' = "Err"
              /\ pc' = "update_done"
              /\ UNCHANGED <<store, db_now, currency, writes>>
    /\ UNCHANGED <<clock, sched_vars, start_date, current_date, exchange_rates,
                   hist_vars, val_curs, pass_maps, pass_store0>>

----------------------------------------------------------------------------
(* main: the select over main_loop and shutdown_signal *)

AwaitPoints == {"get_db_pool", "get_exchange_rates_for_date", "set_rate",
                "set_reverse", "sleep"}

\* Variant: the signal is looked at between passes only, when no backoff
\* delay is pending.
Shutdown_WhenIdle ==
    /\ pc = "sleep"
    /\ retry_count = 0
    /\ pc' = "cancelled"
    /\ UNCHANGED <<clock, sched_vars, pass_vars, store, db_now, hist_vars, log_vars>>

\* SIGTERM or SIGINT arrives while main_loop is suspended: the select drops
\* main_loop and the process ends.
Shutdown ==
    /\ pc \in AwaitPoints
    /\ pc' = "cancelled"
    /\ UNCHANGED <<clock, sched_vars, pass_vars, store, db_now, hist_vars, log_vars>>

----------------------------------------------------------------------------
(* The program *)

Init ==
    /\ clock = T0
    /\ retry_count = 0
    /\ delay_sec = 0
    /\ last_execution = MIN_UTC
    /\ last_try = MIN_UTC
    /\ pc = "loop"
    /\ start_date = NoDate
    /\ current_date = NoDate
    /\ exchange_rates = NoMap
    /\ currency = 1
    /\ result = "Ok"
    /\ store = {}
    /\ db_now = 0
    /\ pass_dates = <<>>
    /\ store0 = {}
    /\ prev_call = <<>>
    /\ calls = 0
    /\ val_curs = <<>>
    /\ pass_maps = <<>>
    /\ writes = <<>>
    /\ pass_store0 = {}

\* The feed of Spec: the fetch fails, or returns the scenario's document or
\* one with a zero rate.
Feed == {FetchErr, FetchOk(GoodDoc), FetchOk(ZeroEurDoc)}

\* The program in the scheduler's environment: every clock reading; a pass
\* fails at the connection or at a fetch, panics on a zero rate, or runs to
\* the end.
Next ==
    \/ LoopIteration
    \/ Sleep(Times)
    \/ GetDbPool(Times)
    \/ GetExchangeRates(Feed)
    \/ IterateNext
    \/ NextCurrency
    \/ SetRate({"ok"})
    \/ SetReverse({"ok"})
    \/ Shutdown

Spec == Init /\ [][Next]_vars

----------------------------------------------------------------------------
(* The program with every failure of a pass: a clock that is read once per  *)
(* pass and a connection that may fail.  At the first and the last date of *)
(* a window and at RevisedDate the fetch may fail, the document may lack a *)
(* parseable rate of EUR, and the store may report an error at the second  *)
(* write of a currency.  At RevisedDate the document may also lack a       *)
(* parseable rate of USD, carry a revised rate, an unparseable rate of an  *)
(* untracked currency or a zero rate, and the store may report an error at *)
(* the first write of a currency.                                          *)

PassTimes == {T0 + 600 * k : k \in 0..MaxTicks}
RevisedDate == date_naive(T0)
FaultyDate ==
    current_date \in {WindowEnd(start_date + DAYS_BACK), RevisedDate, start_date}

PassFeedAny == {FetchErr, FetchOk(GoodDoc), FetchOk(BadEurDoc)}
PassFeedRevised ==
    PassFeedAny \cup {FetchOk(BadUsdDoc), FetchOk(ChangedDoc), FetchOk(BadGbpDoc),
                      FetchOk(ZeroEurDoc)}

PassNext ==
    \/ LoopIteration
    \/ Sleep(PassTimes)
    \/ GetDbPool(PassTimes)
    \/ GetExchangeRates(IF current_date = RevisedDate THEN PassFeedRevised
                        ELSE IF FaultyDate THEN PassFeedAny
                        ELSE {FetchOk(GoodDoc)})
    \/ IterateNext
    \/ NextCurrency
    \/ SetRate(IF current_date = RevisedDate THEN {"ok", "err"} ELSE {"ok"})
    \/ SetReverse(IF FaultyDate THEN {"ok", "err"} ELSE {"ok"})
    \/ Shutdown

PassSpec == Init /\ [][PassNext]_vars

----------------------------------------------------------------------------
(* The reconciler on its own: a caller invokes                             *)
(* update_stored_exchange_rates(date, rates, pool, currencies) up to        *)
(* MaxCalls times, on the store the earlier calls left, with a store that  *)
(* may report an error at any statement.                                   *)

TestDates == {date_naive(T0), date_naive(T0) + 1}
TestMaps == {GoodMap, ChangedMap, NearMap, NoUsdMap, NoEurMap, ZeroEurMap}

Reconcile ==
    /\ pc \in {"test", "update_done"}
    /\ calls < MaxCalls
    /\ calls' = calls + 1
    /\ prev_call' = IF pc = "test" THEN <<>>
                    ELSE <<current_date, exchange_rates, result>>
    /\ \E d \in TestDates, m \in TestMaps : BeginUpdate(d, m)
    /\ writes' = <<>>
    /\ UNCHANGED <<clock, sched_vars, start_date, result, store, db_now, pass_dates,
                   val_curs, pass_maps, pass_store0>>

ReconInit ==
    /\ clock = T0
    /\ retry_count = 0
    /\ delay_sec = 0
    /\ last_execution = MIN_UTC
    /\ last_try = MIN_UTC
    /\ pc = "test"
    /\ start_date = NoDate
    /\ current_date = NoDate
    /\ exchange_rates = NoMap
    /\ currency = 1
    /\ result = "Ok"
    /\ store = {}
    /\ db_now = 0
    /\ pass_dates = <<>>
    /\ store0 = {}
    /\ prev_call = <<>>
    /\ calls = 0
    /\ val_curs = <<>>
    /\ pass_maps = <<>>
    /\ writes = <<>>
    /\ pass_store0 = {}

ReconNext ==
    \/ Reconcile
    \/ NextCurrency
    \/ SetRate({"ok", "err"})
    \/ SetReverse({"ok", "err"})

ReconSpec == ReconInit /\ [][ReconNext]_vars

----------------------------------------------------------------------------
(* The parser on its own: get_curs_map is applied to a document of up to    *)
(* MaxValutes entries, each a currency code with a rate string.            *)

ParseCodes == {"USD", "GBP"}

\* 90,5  1.5E2  2e-1  (empty)  n/a  1e  1,2,3
ParseRates == {<<"9", "0", ",", "5">>, <<"1", ".", "5", "E", "2">>,
               <<"2", "e", "-", "1">>, <<>>, <<"n", "/", "a">>, <<"1", "e">>,
               <<"1", ",", "2", ",", "3">>}

ParseDocs ==
    UNION {[1..n -> {Valute(c, r) : c \in ParseCodes, r \in ParseRates}] :
              n \in 0..MaxValutes}

\* get_curs_map(&val_curs) (line 162).
GetCursMap ==
    /\ pc = "get_curs_map"
    /\ exchange_rates' = get_curs_map(val_curs)
    /\ pc' = "parsed"
    /\ UNCHANGED <<clock, sched_vars, start_date, current_date, currency, result,
                   store, db_now, hist_vars, log_vars>>

ParseInit ==
    /\ clock = T0
    /\ retry_count = 0
    /\ delay_sec = 0
    /\ last_execution = MIN_UTC
    /\ last_try = MIN_UTC
    /\ pc = "get_curs_map"
    /\ start_date = NoDate
    /\ current_date = NoDate
    /\ exchange_rates = NoMap
    /\ currency = 1
    /\ result = "Ok"
    /\ store = {}
    /\ db_now = 0
    /\ pass_dates = <<>>
    /\ store0 = {}
    /\ prev_call = <<>>
    /\ calls = 0
    /\ val_curs \in ParseDocs
    /\ pass_maps = <<>>
    /\ writes = <<>>
    /\ pass_store0 = {}

ParseNext == GetCursMap

ParseSpec == ParseInit /\ [][ParseNext]_vars

----------------------------------------------------------------------------
(* Properties of the scheduler, checked under Spec *)

\* C1: on every evaluation of the loop body a pass starts if and only if
\* (20 minutes have passed since last_execution, or the date differs, or the
\* hour of day differs) and the backoff delay since last_try has passed.
C1_Due ==
    /\ \/ clock >= last_execution + 20 * 60
       \/ date_naive(clock) # date_naive(last_execution)
       \/ hour(clock) # hour(last_execution)
    /\ clock >= last_try + delay_sec

C1_PassStartsIffDue ==
    [][pc = "loop" =>
         /\ (pc' = "get_db_pool") <=> C1_Due
         /\ (pc' = "get_db_pool") => last_try' = clock]_vars

\* A pass started by the change of hour alone: same date, less than 20
\* minutes after the last success.
C1_Witness ==
    /\ pc = "get_db_pool"
    /\ last_try = clock
    /\ clock < last_execution + 20 * 60
    /\ date_naive(clock) = date_naive(last_execution)
    /\ hour(clock) # hour(last_execution)

\* A loop body that started no pass because the backoff delay had not passed.
C1_WitnessBackoff ==
    /\ pc = "sleep"
    /\ retry_count > 0
    /\ clock > last_try
    /\ clock < last_try + delay_sec

\* C2: without a success in between, the k-th failure in a row sets
\* delay_sec to the k-th element of 5, 8, 13, 21, 34, ...: 5 at first, then
\* the integer nearest to the golden ratio times the previous delay; the loop
\* has stopped exactly when the 11th failure in a row has happened.
C2_First == <<5, 8, 13, 21, 34>>

\* n is the integer nearest to d * (1 + sqrt 5) / 2:
\* |2n - d - d sqrt 5| < 1.
C2_NearestToPhiTimes(n, d) ==
    /\ 2 * n - d + 1 > 0
    /\ (2 * n - d + 1) * (2 * n - d + 1) > 5 * d * d
    /\ \/ 2 * n - d - 1 < 0
       \/ (2 * n - d - 1) * (2 * n - d - 1) < 5 * d * d

C2_BackoffSequence ==
    [][/\ retry_count' = retry_count + 1 =>
            /\ retry_count = 0 => delay_sec' = 5
            /\ retry_count > 0 => C2_NearestToPhiTimes(delay_sec', delay_sec)
            /\ retry_count' <= 5 => delay_sec' = C2_First[retry_count']
       /\ (pc' = "ended") <=> (retry_count' = 11)
       /\ pc = "ended" => pc' = "ended"]_vars

C2_Witness == pc = "ended" /\ retry_count = 11 /\ delay_sec = 610

\* C3: the loop ends exactly when retry_count exceeds 10; unless it is
\* cancelled, the process is running while retry_count <= 10.
C3_StopsOnlyAboveCeiling ==
    pc \in {"ended", "panicked"} => retry_count > 10

\* C4: a pass that succeeds sets retry_count and delay_sec to 0,
\* last_execution to the current time and last_try to MIN_UTC; the first
\* failure after it sets the delay to 5 again.
C4_PassSucceeds ==
    pc = "update_done" /\ result = "Ok" /\ current_date = start_date

C4_SuccessResets ==
    [][/\ C4_PassSucceeds =>
            /\ retry_count' = 0
            /\ delay_sec' = 0
            /\ last_execution' = clock'
            /\ last_try' = MIN_UTC
       /\ (last_try = MIN_UTC /\ retry_count' > 0) =>
            retry_count' = 1 /\ delay_sec' = 5]_vars

\* The first failure after a success: the delay is 5 again.
C4_Witness ==
    /\ last_execution # MIN_UTC
    /\ retry_count = 1
    /\ delay_sec = 5
    /\ store # {}

\* C5 as amended: a pass reconciles the 8 dates from tomorrow down to 6 days
\* back, newest first; a pass that succeeds has reconciled exactly those 8,
\* each once.
C5_Window(today) == [i \in 1..8 |-> today + 1 - (i - 1)]

C5_InPass ==
    pc \in {"get_db_pool", "get_exchange_rates_for_date", "currency", "set_rate",
            "set_reverse", "update_done"}

C5_PassSucceeded == last_try = MIN_UTC /\ last_execution # MIN_UTC

C5_EightDatesNewestFirst ==
    [][/\ C5_InPass' =>
            /\ Len(pass_dates') <= 8
            /\ pass_dates' = SubSeq(C5_Window(date_naive(last_try')), 1, Len(pass_dates'))
            /\ pc' \in {"currency", "set_rate", "set_reverse", "update_done"} =>
                  current_date' = C5_Window(date_naive(last_try'))[Len(pass_dates') + 1]
       /\ C4_PassSucceeds =>
            /\ pass_dates' = C5_Window(date_naive(last_try))
            /\ C5_PassSucceeded']_vars

C5_Witness ==
    /\ C5_PassSucceeded
    /\ pc = "sleep"
    /\ Len(pass_dates) = 8
    /\ pass_dates[1] = date_naive(clock) + 1
    /\ pass_dates[8] = date_naive(clock) - 6

\* C5 as stated: a pass that succeeds has reconciled 7 dates.
C5_SevenDates == C5_PassSucceeded => Len(pass_dates) = 7

\* C10: a fetched rate of exactly zero is an ordinary failure of the pass:
\* update_stored_exchange_rates returns an error and the process keeps
\* running.
C10_ZeroRateMet ==
    /\ currency \in 1..Len(get_currencies)
    /\ get_currencies[currency] \in DOMAIN exchange_rates
    /\ exchange_rates[get_currencies[currency]] = 0
    /\ pc # "currency"

C10_ZeroRateIsOrdinaryFailure ==
    C10_ZeroRateMet =>
        /\ pc # "panicked"
        /\ pc = "update_done" => result = "Err"
        /\ pc \in {"sleep", "loop"} => retry_count > 0

\* C12: the shutdown signal can end the process at every point where the
\* loop is suspended (the one-second sleep, with or without a backoff delay
\* pending, and every awaited call of a pass) whatever the retry state; once
\* it has, nothing happens any more: no pass starts and the store is not
\* written.
C12_Suspended ==
    pc \in {"sleep", "get_db_pool", "get_exchange_rates_for_date", "set_rate",
            "set_reverse"}

C12_CancellationWins ==
    /\ C12_Suspended => ENABLED (Next /\ pc' = "cancelled")
    /\ pc = "cancelled" => ~ENABLED (Next /\ vars' # vars)

\* Cancelled between the two writes of a currency, in the middle of a pass.
C12_Witness ==
    /\ pc = "cancelled"
    /\ Len(writes) % 2 = 1
    /\ retry_count = 0

\* Cancelled in the sleep while a backoff delay has not passed yet.
C12_WitnessBackoff ==
    /\ pc = "cancelled"
    /\ retry_count > 0
    /\ clock < last_try + delay_sec

\* C18: a failed pass leaves last_execution alone, and the interval / date /
\* hour condition, once true, stays true until a pass succeeds; so after a
\* failed pass (retry_count in 1..10) the first evaluation of the loop body
\* at or after last_try + delay_sec starts the next pass and no earlier one
\* does, last_try being the time the failed pass started; the sleep between
\* evaluations ends in the next evaluation or in the cancellation.
C18_InWindow ==
    \/ clock >= last_execution + 20 * 60
    \/ date_naive(clock) # date_naive(last_execution)
    \/ hour(clock) # hour(last_execution)

C18_PassFails == retry_count' = retry_count + 1
C18_PassSucceeds == last_execution' # last_execution

C18_RetriedAfterBackoff ==
    /\ [](retry_count > 0 => C18_InWindow)
    /\ [][/\ C18_PassFails => last_execution' = last_execution
          /\ pc = "sleep" => (pc' \in {"loop", "cancelled"} /\ clock' >= clock)
          /\ (C18_InWindow /\ ~C18_PassSucceeds) => C18_InWindow'
          /\ (C5_InPass /\ ~C18_PassSucceeds) => last_try' = last_try
          /\ (pc = "loop" /\ retry_count > 0) =>
                /\ retry_count <= 10
                /\ (pc' = "get_db_pool") <=> (clock >= last_try + delay_sec)
                /\ (pc' = "get_db_pool") => last_try' = clock
                /\ (pc' # "get_db_pool") => pc' = "sleep"]_vars

\* The evaluation of the loop body that starts the pass after the first
\* failure: the clock reads exactly the start of the failed pass plus 5.
C18_Witness ==
    /\ pc = "loop"
    /\ retry_count = 1
    /\ last_try # MIN_UTC
    /\ clock = last_try + delay_sec

\* C19: retry_count is 0 exactly when delay_sec is 0; retry_count is at most
\* 11; delay_sec is 0 or the element of the backoff sequence at index
\* retry_count.
C19_Sequence == <<5, 8, 13, 21, 34, 55, 89, 144, 233, 377, 610>>

C19_CountAndDelayAgree ==
    /\ (retry_count = 0) <=> (delay_sec = 0)
    /\ retry_count \in 0..11
    /\ delay_sec = 0 \/ delay_sec = C19_Sequence[retry_count]

C19_Witness == retry_count = 7 /\ delay_sec = 89 /\ pc = "get_db_pool"

----------------------------------------------------------------------------
(* Properties of the reconciler, checked under ReconSpec *)

InCall == pc \in {"currency", "set_rate", "set_reverse", "update_done"}
Returned(res) == pc = "update_done" /\ result = res

Tracked == {get_currencies[i] : i \in 1..Len(get_currencies)}
FullNonZero(m) == \A c \in Tracked : c \in DOMAIN m /\ m[c] # 0

\* x is 1 / r to DecScale places: |x * r - 1| <= r / 2 in units of the last
\* place, that is ceil((2 - r) / 2r) <= x <= floor((2 + r) / 2r).
IsReciprocal(x, r) ==
    /\ x <= (2 * Pow10(2 * DecScale) + r) \div (2 * r)
    /\ x >= 0 - ((r - 2 * Pow10(2 * DecScale)) \div (2 * r))

Values(s) == {<<r.from_currency, r.to_currency, r.date, r.rate>> : r \in s}

\* C6: on an empty store, with a map that has a non-zero rate for every
\* tracked currency, a reconciliation that returns Ok has written exactly two
\* rows per tracked currency C: (C, RUB, date, rate[C]) and
\* (RUB, C, date, 1 / rate[C]).
C6_TwoRowsPerCurrency ==
    (Returned("Ok") /\ store0 = {} /\ FullNonZero(exchange_rates)) =>
        /\ Cardinality(store) = 2 * Cardinality(Tracked)
        /\ \A c \in Tracked :
              /\ <<c, "RUB", current_date, exchange_rates[c]>> \in Values(store)
              /\ \E r \in store :
                    /\ Key(r) = <<"RUB", c, current_date>>
                    /\ IsReciprocal(r.rate, exchange_rates[c])

C6_Witness ==
    /\ Returned("Ok")
    /\ store0 = {}
    /\ exchange_rates = GoodMap
    /\ Cardinality(store) = 4

\* C7: a reconciliation of the date and map that the previous reconciliation
\* was called with and returned Ok for writes nothing: the table, every
\* updated_at included, stays as it was when the call began.
C7_SecondCall == InCall /\ prev_call = <<current_date, exchange_rates, "Ok">>

C7_SecondCallWritesNothing == C7_SecondCall => store = store0

C7_Witness == C7_SecondCall /\ Returned("Ok") /\ Cardinality(store) = 4

\* The call that has just returned Ok follows an Ok call for the same date
\* whose map differed in the rate of c and of no other tracked currency.
C8_RateChanged(c) ==
    /\ Returned("Ok")
    /\ Len(prev_call) = 3
    /\ prev_call[1] = current_date
    /\ prev_call[3] = "Ok"
    /\ FullNonZero(prev_call[2])
    /\ FullNonZero(exchange_rates)
    /\ \A c2 \in Tracked : (prev_call[2][c2] # exchange_rates[c2]) <=> (c2 = c)

C8_ChangedKeys == {Key(r) : r \in store0 \ store}

\* Every row of the table before the call is there after it with its id,
\* natural key and created_at, and no row was added.
C8_RowsKept ==
    /\ Cardinality(store) = Cardinality(store0)
    /\ \A r0 \in store0 : \E r \in store :
          /\ r.id = r0.id
          /\ Key(r) = Key(r0)
          /\ r.created_at = r0.created_at
          /\ r # r0 => (r.rate # r0.rate /\ r.updated_at > r0.updated_at)

\* C8 as amended: a changed rate for an existing (currency, date) updates the
\* rate and updated_at of the C -> RUB row and, when the reciprocal changed
\* too, of the RUB -> C row, and of no other row; ids, natural keys and
\* created_at are unchanged and no row is inserted.
C8_UpdatesBothLegsOnly ==
    \A c \in Tracked : C8_RateChanged(c) =>
        /\ <<c, "RUB", current_date>> \in C8_ChangedKeys
        /\ C8_ChangedKeys \subseteq {<<c, "RUB", current_date>>, <<"RUB", c, current_date>>}
        /\ <<c, "RUB", current_date, exchange_rates[c]>> \in Values(store)
        /\ \E r \in store : /\ Key(r) = <<"RUB", c, current_date>>
                             /\ IsReciprocal(r.rate, exchange_rates[c])
        /\ C8_RowsKept

C8_Witness ==
    /\ C8_RateChanged("USD")
    /\ C8_ChangedKeys = {<<"USD", "RUB", current_date>>, <<"RUB", "USD", current_date>>}

\* A changed rate whose reciprocal is the same to DecScale places: the
\* RUB -> C row is left alone.
C8_WitnessOneLeg ==
    /\ C8_RateChanged("USD")
    /\ C8_ChangedKeys = {<<"USD", "RUB", current_date>>}

\* C8 as stated: exactly the one row changes.
C8_UpdatesExactlyOneRow ==
    \A c \in Tracked : C8_RateChanged(c) =>
        /\ C8_ChangedKeys = {<<c, "RUB", current_date>>}
        /\ C8_RowsKept

\* C9: when the map lacks tracked currency C, the reconciliation returns an
\* error, no row of C for that date is inserted or updated, and the
\* currencies after C in the list are not processed.
C9_FirstMissing(i) ==
    /\ i \in 1..Len(get_currencies)
    /\ get_currencies[i] \notin DOMAIN exchange_rates
    /\ \A j \in 1..(i - 1) : get_currencies[j] \in DOMAIN exchange_rates

C9_RowsOf(s, c, date) ==
    {r \in s : r.date = date /\ (r.from_currency = c \/ r.to_currency = c)}

C9_MissingRateAborts ==
    \A i \in 1..Len(get_currencies) : (InCall /\ C9_FirstMissing(i)) =>
        /\ currency <= i
        /\ pc = "update_done" => result = "Err"
        /\ \A j \in i..Len(get_currencies) :
              C9_RowsOf(store, get_currencies[j], current_date)
                  = C9_RowsOf(store0, get_currencies[j], current_date)

\* USD is missing and EUR is not: the call has returned the error and
\* written nothing, on a table that holds rows of another date.
C9_Witness ==
    /\ Returned("Err")
    /\ exchange_rates = NoUsdMap
    /\ currency = 1
    /\ store # {}
    /\ C9_RowsOf(store, "EUR", current_date) = {}

\* C15 as amended: for each tracked currency C the reconciliation upserts
\* the row (C -> RUB, date) with the fetched rate and then the row
\* (RUB -> C, date) with 1 / rate; when it returns Ok both rows of every
\* tracked currency are there.
C15_RateRow(s, from_currency, to_currency) ==
    <<from_currency, to_currency, current_date,
      exchange_rates[get_currencies[currency]]>> \in Values(s)

C15_ReverseRow(s, from_currency, to_currency) ==
    \E r \in s :
        /\ Key(r) = <<from_currency, to_currency, current_date>>
        /\ IsReciprocal(r.rate, exchange_rates[get_currencies[currency]])

C15_FirstWritten == pc = "set_rate" /\ pc' = "set_reverse"
C15_SecondWritten == pc = "set_reverse" /\ pc' = "currency"

C15_CurrencyToBaseGetsRate ==
    [][/\ C15_FirstWritten => C15_RateRow(store', get_currencies[currency], "RUB")
       /\ C15_SecondWritten =>
             /\ C15_RateRow(store', get_currencies[currency], "RUB")
             /\ C15_ReverseRow(store', "RUB", get_currencies[currency])
       /\ Returned("Ok")' => \A c \in Tracked :
             /\ <<c, "RUB", current_date', exchange_rates'[c]>> \in Values(store')
             /\ \E r \in store' : /\ Key(r) = <<"RUB", c, current_date'>>
                                  /\ IsReciprocal(r.rate, exchange_rates'[c])]_vars

\* A stored USD rate replaced by 50: USD -> RUB holds 50 and RUB -> USD 0.02.
C15_Witness ==
    /\ Returned("Ok")
    /\ exchange_rates = ChangedMap
    /\ <<"USD", "RUB", current_date, Dec(905, 1)>> \in Values(store0)
    /\ <<"USD", "RUB", current_date, Dec(50, 0)>> \in Values(store)
    /\ <<"RUB", "USD", current_date, Dec(2, 2)>> \in Values(store)

\* C15 as stated: the row (RUB -> C, date) gets the fetched rate and the row
\* (C -> RUB, date) gets 1 / rate.
C15_BaseToCurrencyGetsRate ==
    [][/\ C15_FirstWritten => C15_RateRow(store', "RUB", get_currencies[currency])
       /\ C15_SecondWritten =>
             /\ C15_RateRow(store', "RUB", get_currencies[currency])
             /\ C15_ReverseRow(store', get_currencies[currency], "RUB")]_vars

----------------------------------------------------------------------------
(* Properties of the passes, checked under PassSpec *)

\* The pass has failed and the next one has not started.
PassFailed == retry_count > 0 /\ pc \in {"sleep", "loop", "ended"}

\* The step that hands a failure of the pass to main_loop: the connection or
\* the fetch failed, or update_stored_exchange_rates returned an error (a
\* missing rate or a store error).
PassFails ==
    \/ pc \in {"get_db_pool", "get_exchange_rates_for_date"} /\ pc' \in {"sleep", "ended"}
    \/ pc = "update_done" /\ result = "Err"

\* C11: the writes of a pass are made in a fixed order: dates from tomorrow
\* down, per date the currencies USD, EUR, per currency the row C -> RUB
\* with the fetched rate and then the row RUB -> C with its reciprocal.
\* After a pass has failed, the writes it completed are a prefix of that
\* sequence, every one of them is in the store (nothing is rolled back), and
\* every row of another key is as it was when the pass began.
C11_Date(j) == start_date + 7 - ((j - 1) \div 4)
C11_Currency(j) == get_currencies[(((j - 1) % 4) \div 2) + 1]
C11_Map(j) == pass_maps[((j - 1) \div 4) + 1]

C11_InOrder(j) ==
    /\ writes[j].date = C11_Date(j)
    /\ IF j % 2 = 1
       THEN /\ writes[j].from_currency = C11_Currency(j)
            /\ writes[j].to_currency = "RUB"
            /\ writes[j].rate = C11_Map(j)[C11_Currency(j)]
       ELSE /\ writes[j].from_currency = "RUB"
            /\ writes[j].to_currency = C11_Currency(j)
            /\ IsReciprocal(writes[j].rate, C11_Map(j)[C11_Currency(j)])

C11_WrittenKeys ==
    {<<writes[j].from_currency, writes[j].to_currency, writes[j].date>> :
        j \in 1..Len(writes)}

C11_PrefixCommitted ==
    PassFailed =>
        LET stored == Values(store)
            written == C11_WrittenKeys
        IN  /\ Len(writes) < 32
            /\ \A j \in 1..Len(writes) :
                  /\ C11_InOrder(j)
                  /\ <<writes[j].from_currency, writes[j].to_currency, writes[j].date,
                        writes[j].rate>> \in stored
            /\ {r \in store : Key(r) \notin written}
                  = {r \in pass_store0 : Key(r) \notin written}

\* The second pass failed between the two writes of EUR for its third date,
\* on a store the first pass had written to.
C11_Witness ==
    /\ PassFailed
    /\ Len(writes) = 11
    /\ pass_store0 # {}
    /\ store # pass_store0

\* C13: the store never holds two rows with one natural key or one id; a
\* step that writes keeps every row there was, with its id, natural key and
\* created_at.
C13_OneRowPerKey ==
    [][/\ Cardinality({Key(r) : r \in store'}) = Cardinality(store')
       /\ Cardinality({r.id : r \in store'}) = Cardinality(store')
       /\ store' # store =>
             \A r \in store : \E r2 \in store' :
                 /\ r2.id = r.id
                 /\ Key(r2) = Key(r)
                 /\ r2.created_at = r.created_at]_vars

\* After a failed pass the store holds a row that was created by one pass
\* and updated by another.
C13_Witness ==
    /\ PassFailed
    /\ \E r \in store : r.updated_at > r.created_at
    /\ \E r \in store : r.date = start_date /\ r.updated_at = r.created_at

\* C14: after a pass that succeeded, for every date D of its window (the 8
\* dates from tomorrow down) and every tracked currency C, the rows of C for
\* D are exactly two: C -> RUB with the rate of the map fetched for D in
\* that pass, and RUB -> C with the reciprocal of that rate.
C14_PassSucceeded ==
    /\ last_try = MIN_UTC
    /\ last_execution # MIN_UTC
    /\ pc \in {"sleep", "loop"}

C14_WindowReconciled ==
    C14_PassSucceeded =>
        LET stored == Values(store)
        IN  /\ pass_dates = [i \in 1..8 |-> start_date + 8 - i]
            /\ Len(pass_maps) = 8
            /\ \A i \in 1..8 : \A c \in Tracked :
                  /\ Cardinality(C9_RowsOf(store, c, pass_dates[i])) = 2
                  /\ <<c, "RUB", pass_dates[i], pass_maps[i][c]>> \in stored
                  /\ \E r \in store :
                        /\ Key(r) = <<"RUB", c, pass_dates[i]>>
                        /\ IsReciprocal(r.rate, pass_maps[i][c])

\* The pass succeeded on a store that held a stale USD rate (50) for one date
\* and, for another date, the row USD -> RUB without the row RUB -> USD.
C14_Witness ==
    /\ C14_PassSucceeded
    /\ \E r \in pass_store0 :
          /\ Key(r) = <<"USD", "RUB", RevisedDate>>
          /\ r.rate = Dec(50, 0)
    /\ <<"USD", "RUB", RevisedDate, Dec(905, 1)>> \in Values(store)
    /\ \E r \in pass_store0 :
          /\ r.from_currency = "USD"
          /\ Select(pass_store0, "RUB", "USD", r.date) = {}

\* C16: every failure of a pass (connection, fetch, missing rate, store
\* error), at any date or currency, reaches main_loop as one error: one step
\* that adds 1 to retry_count, moves delay_sec to the next element of the
\* backoff sequence and changes nothing else of the schedule or the store.
\* retry_count changes at no other step but the success of a pass, and a
\* pass ends in no other way but the cancellation or the panic.
C16_OneFailureOneSlot ==
    [][/\ PassFails =>
             /\ retry_count' = retry_count + 1
             /\ delay_sec' = C19_Sequence[retry_count + 1]
             /\ pc' \in {"sleep", "ended"}
             /\ UNCHANGED <<last_execution, last_try, store>>
       /\ retry_count' # retry_count => (PassFails \/ C4_PassSucceeds)
       /\ (C5_InPass /\ ~C5_InPass') =>
             (PassFails \/ C4_PassSucceeds \/ pc' \in {"cancelled", "panicked"})]_vars

\* The second failure in a row: the first pass failed before it wrote, the
\* second at its first date, whose document lacked EUR, after the two
\* writes of USD.
C16_Witness ==
    /\ pc = "sleep"
    /\ retry_count = 2
    /\ delay_sec = 8
    /\ result = "Err"
    /\ exchange_rates = NoEurMap
    /\ Len(writes) = 2
    /\ Cardinality(store) = 2

\* C20: get_curs_map drops what does not parse.  A document in which the
\* only rate strings of a tracked currency do not parse yields a map
\* without that currency; the reconciliation of that date returns the
\* missing-rate error without a write for the currency, and the pass fails
\* and takes one retry.  Rate strings of untracked currencies that do not
\* parse leave the tracked entries of the map as they are without them.
C20_Unparseable(valute) ==
    parse_decimal_string(normalize_decimal_string(valute.vunit_rate)) = None

C20_OnlyUnparseable(document, c) ==
    /\ \E i \in 1..Len(document) : document[i].char_code = c
    /\ \A i \in 1..Len(document) :
          document[i].char_code = c => C20_Unparseable(document[i])

C20_KeepTracked(valute) == valute.char_code \in Tracked \/ ~C20_Unparseable(valute)

C20_Lookup(map, c) == IF c \in DOMAIN map THEN Some(map[c]) ELSE None

C20_Fetched == pc = "get_exchange_rates_for_date" /\ pc' = "currency"

C20_UnparseableRateIsMissingRate ==
    [][/\ C20_Fetched => \A c \in Tracked :
             /\ C20_OnlyUnparseable(val_curs', c) => c \notin DOMAIN exchange_rates'
             /\ C20_Lookup(exchange_rates', c)
                   = C20_Lookup(get_curs_map(SelectSeq(val_curs', C20_KeepTracked)), c)
       /\ (/\ pc = "currency"
           /\ currency <= Len(get_currencies)
           /\ C20_Lookup(exchange_rates, get_currencies[currency]) = None) =>
             /\ pc' = "update_done"
             /\ result' = "Err"
             /\ UNCHANGED <<store, current_date>>
       /\ (pc = "update_done" /\ result = "Err") =>
             /\ retry_count' = retry_count + 1
             /\ pc' \in {"sleep", "ended"}]_vars

\* EUR's only rate string is "n/a": the pass has failed at that date after
\* the two writes of USD.
C20_Witness ==
    /\ PassFailed
    /\ retry_count = 1
    /\ val_curs = BadEurDoc
    /\ C20_OnlyUnparseable(val_curs, "EUR")
    /\ result = "Err"
    /\ Len(writes) % 4 = 2
    /\ C9_RowsOf(store, "EUR", current_date) = {}

\* GBP's rate string does not parse: the pass has succeeded and the rows of
\* the date are those of the scenario.
C20_WitnessUntracked ==
    /\ C14_PassSucceeded
    /\ pass_maps[2] = get_curs_map(BadGbpDoc)
    /\ "GBP" \notin DOMAIN pass_maps[2]
    /\ <<"USD", "RUB", RevisedDate, Dec(905, 1)>> \in Values(store)
    /\ <<"EUR", "RUB", RevisedDate, Dec(10025, 2)>> \in Values(store)

----------------------------------------------------------------------------
(* Properties of the parser, checked under ParseSpec *)

\* C17: get_curs_map returns a map for every document: its keys are the
\* currency codes that have an entry whose rate string parses, and the
\* value of a code is the value of the last such entry of the code.
C17_Value(valute) == parse_decimal_string(normalize_decimal_string(valute.vunit_rate))

C17_Parseable(c) ==
    {i \in 1..Len(val_curs) :
        val_curs[i].char_code = c /\ C17_Value(val_curs[i]) # None}

C17_Last(c) == CHOOSE i \in C17_Parseable(c) : \A j \in C17_Parseable(c) : j <= i

C17_DropsUnparseableLastWins ==
    pc = "parsed" =>
        /\ DOMAIN exchange_rates
              = {val_curs[i].char_code : i \in UNION {C17_Parseable(c) : c \in ParseCodes}}
        /\ \A c \in DOMAIN exchange_rates :
              Some(exchange_rates[c]) = C17_Value(val_curs[C17_Last(c)])

\* USD 1.5E2 and then USD n/a: the second entry is dropped, USD is 150.
C17_Witness ==
    /\ pc = "parsed"
    /\ val_curs = <<Valute("USD", <<"1", ".", "5", "E", "2">>),
                    Valute("USD", <<"n", "/", "a">>)>>
    /\ exchange_rates = ("USD" :> Dec(150, 0))

\* USD 90,5 and then USD 2e-1: the last entry wins, USD is 0.2.
C17_WitnessLastWins ==
    /\ pc = "parsed"
    /\ val_curs = <<Valute("USD", <<"9", "0", ",", "5">>),
                    Valute("USD", <<"2", "e", "-", "1">>)>>
    /\ exchange_rates = ("USD" :> Dec(2, 1))

====
